---------------------------- MODULE Spec2Model ----------------------------
(***************************************************************************)
(* Max-min p-dispersion solvers of the p_dispersion crate:                 *)
(*   p_solver           (src/core.rs)   bitset Vec<u32>, arena of n slots  *)
(*   naive_solver       (src/naive.rs)  bitset [u64; 3], arena of n slots  *)
(*   solve_p_dispersion (src/lib.rs)    HashSet search, n*n candidates     *)
(*                                                                         *)
(* Arrays are functions over 0..len-1, as indexed in the source.  A       *)
(* machine word is the set of its one-bits: & is \cap, | is \cup, !w is    *)
(* the complement within 0..WordBits-1, count_ones is Cardinality and      *)
(* trailing_zeros is the least element.                                    *)
(*                                                                         *)
(* The inputs are points of the x axis with small natural coordinates:     *)
(* there (dx^2 + dy^2) is a perfect square below 2^24, so the f32 sqrt of  *)
(* get_distance is exact and Sqrt below computes the very same number.     *)
(***************************************************************************)
EXTENDS Integers, Sequences, FiniteSets, TLC

\* ------------------------------------------------------------------ bounds
MaxN == 3
MaxCoord == 3

\* --------------------------------------------------------- program constants
WordBits == 32
naive_WordBits == 64
naive_Sectors == 3
naive_Capacity == 192
U8 == 256
\* stands for usize::MAX, the value 0 - 1 wraps to when overflow checks are off
\* (2^32 - 1 on wasm32, 2^64 - 1 on 64-bit targets): it is only halved and
\* compared with indices below n * n
usize_MAX == 2147483647

VARIABLES
  solver,                   \* which entry point is called
  input_data,               \* &[Point]
  placements,               \* the placement count p
  overflow_checks,          \* build profile: arithmetic overflow panics or wraps
  pc,                       \* position in the entry point
  distance_matrix,          \* PointData::distance_matrix
  possible_point_distance,  \* the sorted candidate thresholds
  left_index, right_index, target,
  best_result,
  largest_distance,         \* lib.rs only
  stack,                    \* SolveStack (core.rs, naive.rs)
  adjacency_matrix,         \* the AdjacencyMatrix of the running probe
  frames,                   \* active calls of search, innermost last
  ret,                      \* value returned by the call of search that just ended
  result,                   \* what the entry point returned
  run,                      \* lib.rs: 1 for the first call, 2 for the re-run
  first_result,             \* lib.rs: what the first call returned
  point_vecs                \* two PointVec of one capacity, operated on directly

vars == <<solver, input_data, placements, overflow_checks, pc, distance_matrix,
          possible_point_distance, left_index, right_index, target, best_result,
          largest_distance, stack, adjacency_matrix, frames, ret, result, run,
          first_result, point_vecs>>

\* ------------------------------------------------------------ generic helpers
None == [some |-> FALSE]
Some(v) == [some |-> TRUE, val |-> v]
Pending == [pending |-> TRUE]
Panic(why) == [panic |-> why]

IsPanic(r) == "panic" \in DOMAIN r
IsSome(r) == "some" \in DOMAIN r /\ r.some
IsNone(r) == "some" \in DOMAIN r /\ ~r.some

ArrLen(a) == Cardinality(DOMAIN a)
EmptyArr == [i \in {} |-> 0]

SetMin(S) == CHOOSE m \in S : \A k \in S : m <= k

RECURSIVE SumTo(_, _)
\* sum of f[0] + ... + f[k-1]
SumTo(f, k) == IF k = 0 THEN 0 ELSE SumTo(f, k - 1) + f[k - 1]

\* ------------------------------------------------------------------- Point
Points == [x : 0..MaxCoord, y : {0}]

\* f32::sqrt on a perfect square
Sqrt(k) == CHOOSE r \in 0..k : r * r = k

get_distance(a, b) ==
  Sqrt((a.x - b.x) * (a.x - b.x) + (a.y - b.y) * (a.y - b.y))

PointData_distances(location) ==
  [point_a \in DOMAIN location |->
     [point_b \in DOMAIN location |-> get_distance(location[point_a], location[point_b])]]

RECURSIVE insert_sorted(_, _)
insert_sorted(s, v) ==
  IF s = <<>> THEN <<v>>
  ELSE IF v < Head(s) THEN <<v>> \o s
  ELSE <<Head(s)>> \o insert_sorted(Tail(s), v)

RECURSIVE sort_prefix(_, _)
\* the first k elements of array a, sorted ascending, as a sequence
sort_prefix(a, k) ==
  IF k = 0 THEN <<>>
  ELSE \* the shorter prefix is sorted once, then a[k - 1] is inserted into it
       CHOOSE r \in {insert_sorted(s, a[k - 1]) : s \in {sort_prefix(a, k - 1)}} : TRUE

\* Vec::sort_by(f32::total_cmp)
sort_by_total_cmp(a) ==
  LET s == sort_prefix(a, ArrLen(a)) IN [i \in 0..ArrLen(a) - 1 |-> s[i + 1]]

\* ------------------------------------------------------ core.rs: PointVec
PointVec_new(location_count, fill) ==
  LET sector_count == location_count \div WordBits
                        + (IF location_count % WordBits # 0 THEN 1 ELSE 0)
  IN IF fill
     THEN [data |-> [s \in 0..sector_count - 1 |->
                       IF s = sector_count - 1 /\ location_count % WordBits # 0
                       THEN 0..(location_count % WordBits) - 1
                       ELSE 0..WordBits - 1],
           true_count |-> location_count]
     ELSE [data |-> [s \in 0..sector_count - 1 |-> {}], true_count |-> 0]

PointVec_reset(self, location_count, fill) ==
  LET last == ArrLen(self.data) - 1
  IN IF fill
     THEN [data |-> [s \in DOMAIN self.data |->
                       IF s = last /\ location_count % WordBits # 0
                       THEN 0..(location_count % WordBits) - 1
                       ELSE 0..WordBits - 1],
           true_count |-> location_count]
     ELSE [data |-> [s \in DOMAIN self.data |-> {}], true_count |-> 0]

PointVec_len(self) == self.true_count

PointVec_copy(self, copy_src) ==
  [data |-> [s \in DOMAIN self.data |->
               IF s \in DOMAIN copy_src.data THEN copy_src.data[s] ELSE self.data[s]],
   true_count |-> copy_src.true_count]

PointVec_next(self) ==
  LET nonzero == {s \in DOMAIN self.data : self.data[s] # {}}
  IN IF nonzero = {} THEN None
     ELSE LET index == SetMin(nonzero)
          IN Some(WordBits * index + SetMin(self.data[index]))

\* PointVec_subtract with line 110 written *lhs |= rhs
PointVec_subtract_or(self, rhs) ==
  LET zipped == DOMAIN self.data \cap DOMAIN rhs.data
      data == [s \in DOMAIN self.data |->
                 IF s \in zipped THEN self.data[s] \cup rhs.data[s] ELSE self.data[s]]
      ones == [s \in zipped |-> Cardinality(data[s])]
  IN [data |-> data, true_count |-> SumTo(ones, Cardinality(zipped))]

\* PointVec_subtract with line 110 written *lhs &= rhs, the complement forgotten
PointVec_subtract_and(self, rhs) ==
  LET zipped == DOMAIN self.data \cap DOMAIN rhs.data
      data == [s \in DOMAIN self.data |->
                 IF s \in zipped THEN self.data[s] \cap rhs.data[s] ELSE self.data[s]]
      ones == [s \in zipped |-> Cardinality(data[s])]
  IN [data |-> data, true_count |-> SumTo(ones, Cardinality(zipped))]

PointVec_subtract(self, rhs) ==
  LET zipped == DOMAIN self.data \cap DOMAIN rhs.data
      data == [s \in DOMAIN self.data |->
                 IF s \in zipped THEN self.data[s] \ rhs.data[s] ELSE self.data[s]]
      ones == [s \in zipped |-> Cardinality(data[s])]
  IN [data |-> data, true_count |-> SumTo(ones, Cardinality(zipped))]

PointVec_remove(self, index) ==
  LET sector == index \div WordBits
      bit == index % WordBits
  IN [data |-> [self.data EXCEPT ![sector] = @ \ {bit}],
      true_count |-> self.true_count - (IF bit \in self.data[sector] THEN 1 ELSE 0)]

\* PointVec_insert with line 127 adding one whether or not the bit was set
PointVec_insert_always_counts(self, index) ==
  LET sector == index \div WordBits
      bit == index % WordBits
  IN [data |-> [self.data EXCEPT ![sector] = @ \cup {bit}],
      true_count |-> self.true_count + 1]

PointVec_insert(self, index) ==
  LET sector == index \div WordBits
      bit == index % WordBits
  IN [data |-> [self.data EXCEPT ![sector] = @ \cup {bit}],
      true_count |-> self.true_count + (IF bit \notin self.data[sector] THEN 1 ELSE 0)]

RECURSIVE word_indices(_, _)
\* the inner while loop of From<PointVec>: the one-bits of value, lowest first
word_indices(base, value) ==
  IF value = {} THEN <<>>
  ELSE <<base + SetMin(value)>> \o word_indices(base, value \ {SetMin(value)})

RECURSIVE PointVec_into_upto(_, _)
PointVec_into_upto(val, k) ==
  IF k = 0 THEN <<>>
  ELSE PointVec_into_upto(val, k - 1) \o word_indices((k - 1) * WordBits, val.data[k - 1])

\* impl From<PointVec> for Box<[usize]>
PointVec_into(val) ==
  LET s == PointVec_into_upto(val, ArrLen(val.data))
  IN [i \in 0..Len(s) - 1 |-> s[i + 1]]

\* ---------------------------------------------- core.rs: AdjacencyMatrix
RECURSIVE adjacency_row_strict(_, _, _, _)
\* adjacency_row with the comparison of line 32 written < instead of <=
adjacency_row_strict(row, distances, neighbour_distance, k) ==
  IF k = 0 THEN row
  ELSE LET prev == adjacency_row_strict(row, distances, neighbour_distance, k - 1)
       IN IF distances[k - 1] < neighbour_distance
          THEN PointVec_insert(prev, k - 1)
          ELSE prev

RECURSIVE adjacency_row(_, _, _, _)
\* the inner for loop of AdjacencyMatrix::new over the first k points of a row
adjacency_row(row, distances, neighbour_distance, k) ==
  IF k = 0 THEN row
  ELSE LET prev == adjacency_row(row, distances, neighbour_distance, k - 1)
       IN IF distances[k - 1] <= neighbour_distance
          THEN PointVec_insert(prev, k - 1)
          ELSE prev

AdjacencyMatrix_new(location_count, matrix, neighbour_distance) ==
  [index \in 0..location_count - 1 |->
     adjacency_row(PointVec_new(location_count, FALSE), matrix[index],
                   neighbour_distance, ArrLen(matrix[index]))]

\* ------------------------------------------- core.rs: SolveData, SolveStack
SolveData_new(location_count) ==
  [selected_points |-> PointVec_new(location_count, FALSE),
   remaining_points |-> PointVec_new(location_count, TRUE)]

SolveData_copy(self, copy_src) ==
  [selected_points |-> PointVec_copy(self.selected_points, copy_src.selected_points),
   remaining_points |-> PointVec_copy(self.remaining_points, copy_src.remaining_points)]

SolveData_reset(self, location_count) ==
  [selected_points |-> PointVec_reset(self.selected_points, location_count, FALSE),
   remaining_points |-> PointVec_reset(self.remaining_points, location_count, TRUE)]

SolveStack_new(max_search_depth, location_count) ==
  [data |-> [i \in 0..max_search_depth - 1 |-> SolveData_new(location_count)],
   idx |-> 0]

\* the assertion of SolveStack::alloc
SolveStack_alloc_assert(self) == self.idx < ArrLen(self.data)

\* SolveStack::alloc hands out slot self.idx and leaves this stack
SolveStack_alloc(self) == [self EXCEPT !.idx = @ + 1]

SolveStack_dealloc(self) == [self EXCEPT !.idx = @ - 1]

\* SolveStack_reset with line 212 left out: only idx goes back to 0
SolveStack_reset_idx_only(self, location_count) ==
  [data |-> self.data, idx |-> 0]

SolveStack_reset(self, location_count) ==
  [data |-> [self.data EXCEPT ![0] = SolveData_reset(@, location_count)], idx |-> 0]

\* ------------------------------------------------------- call-stack helpers
Frame(slot, at) == [slot |-> slot, at |-> at]
Top(fs) == fs[Len(fs)]
Pop(fs) == SubSeq(fs, 1, Len(fs) - 1)
SetTop(fs, f) == [fs EXCEPT ![Len(fs)] = f]

\* ------------------------------------------------------ core.rs: p_solver
\* lines 275-298: distance matrix, candidate thresholds, bounds, arena
p_solver_entry ==
  /\ solver = "p_solver" /\ pc = "entry"
  /\ LET input_size == ArrLen(input_data)
         matrix == PointData_distances(input_data)
     IN /\ distance_matrix' = matrix
        /\ IF input_size = 0
           THEN \* .first().expect("Distance matrix must not be empty")
                /\ pc' = "panic"
                /\ result' = Panic("Distance matrix must not be empty")
                /\ UNCHANGED <<possible_point_distance, left_index, right_index,
                               best_result, stack>>
           ELSE /\ possible_point_distance' = sort_by_total_cmp(matrix[0])
                /\ left_index' = 0
                /\ right_index' = ArrLen(matrix[0]) - 1
                /\ best_result' = PointVec_new(input_size, FALSE)
                /\ stack' = SolveStack_new(input_size, input_size)
                /\ pc' = "loop"
                /\ UNCHANGED result
  /\ UNCHANGED <<point_vecs, solver, input_data, placements, overflow_checks, target,
                 largest_distance, adjacency_matrix, frames, ret, run, first_result>>

\* lines 300-308: one more turn of the while loop, up to the call of search
p_solver_probe ==
  /\ solver = "p_solver" /\ pc = "loop"
  /\ left_index < right_index
  /\ LET input_size == ArrLen(input_data)
         reset == SolveStack_reset(stack, input_size)
         mid == (left_index + right_index) \div 2
     IN /\ target' = mid
        /\ IF SolveStack_alloc_assert(reset)
           THEN /\ stack' = SolveStack_alloc(reset)
                /\ adjacency_matrix' = AdjacencyMatrix_new(input_size, distance_matrix,
                                                           possible_point_distance[mid])
                /\ frames' = <<Frame(reset.idx, "enter")>>
                /\ pc' = "search"
                /\ UNCHANGED result
           ELSE /\ pc' = "panic"
                /\ result' = Panic("assertion failed: self.idx < self.data.len()")
                /\ stack' = reset
                /\ UNCHANGED <<adjacency_matrix, frames>>
  /\ UNCHANGED <<point_vecs, solver, input_data, placements, overflow_checks, distance_matrix,
                 possible_point_distance, left_index, right_index, best_result,
                 largest_distance, ret, run, first_result>>

\* search, lines 233-261: the two early returns, else pick the next point and
\* build the include state in a fresh arena slot
search_enter ==
  /\ solver = "p_solver" /\ pc = "search"
  /\ LET slot == Top(frames).slot
         solve_data == stack.data[slot]
         select_size == placements
     IN IF PointVec_len(solve_data.selected_points) >= select_size
        THEN /\ ret' = Some(slot)
             /\ frames' = Pop(frames)
             /\ pc' = "returned"
             /\ UNCHANGED <<stack, result>>
        ELSE IF PointVec_len(solve_data.remaining_points)
                  < select_size - PointVec_len(solve_data.selected_points)
        THEN /\ ret' = None
             /\ frames' = Pop(frames)
             /\ pc' = "returned"
             /\ UNCHANGED <<stack, result>>
        ELSE LET next == PointVec_next(solve_data.remaining_points)
             IN IF ~IsSome(next)
                THEN /\ pc' = "panic"
                     /\ result' = Panic("At least one point remaining")
                     /\ UNCHANGED <<stack, frames, ret>>
                ELSE LET point == next.val
                         parent == [solve_data EXCEPT !.remaining_points =
                                      PointVec_remove(@, point)]
                     IN \E removed \in {[stack EXCEPT !.data[slot] = parent]} :
                        IF ~SolveStack_alloc_assert(removed)
                        THEN /\ pc' = "panic"
                             /\ result' = Panic("assertion failed: self.idx < self.data.len()")
                             /\ stack' = removed
                             /\ UNCHANGED <<frames, ret>>
                        ELSE \E copied \in {SolveData_copy(removed.data[removed.idx], parent)} :
                             LET new_slot == removed.idx
                                 new_data ==
                                   [selected_points |->
                                      PointVec_insert(copied.selected_points, point),
                                    remaining_points |->
                                      PointVec_subtract(copied.remaining_points,
                                                        adjacency_matrix[point])]
                             IN /\ stack' = [SolveStack_alloc(removed)
                                               EXCEPT !.data[new_slot] = new_data]
                                /\ frames' = Append(SetTop(frames, Frame(slot, "include")),
                                                    Frame(new_slot, "enter"))
                                /\ UNCHANGED <<pc, ret, result>>
  /\ UNCHANGED <<point_vecs, solver, input_data, placements, overflow_checks, distance_matrix,
                 possible_point_distance, left_index, right_index, target, best_result,
                 largest_distance, adjacency_matrix, run, first_result>>

\* search, lines 263-271: the include call came back
search_after_include ==
  /\ solver = "p_solver" /\ pc = "returned"
  /\ frames # <<>> /\ Top(frames).at = "include"
  /\ IF IsSome(ret)
     THEN /\ frames' = Pop(frames)
          /\ UNCHANGED <<stack, pc, ret>>
     ELSE /\ stack' = SolveStack_dealloc(stack)
          /\ frames' = Append(SetTop(frames, Frame(Top(frames).slot, "exclude")),
                              Frame(Top(frames).slot, "enter"))
          /\ pc' = "search"
          /\ UNCHANGED ret
  /\ UNCHANGED <<point_vecs, solver, input_data, placements, overflow_checks, distance_matrix,
                 possible_point_distance, left_index, right_index, target, best_result,
                 largest_distance, adjacency_matrix, result, run, first_result>>

\* search, line 271: the exclude call came back and its value is returned as is
search_after_exclude ==
  /\ solver = "p_solver" /\ pc = "returned"
  /\ frames # <<>> /\ Top(frames).at = "exclude"
  /\ frames' = Pop(frames)
  /\ UNCHANGED <<point_vecs, solver, input_data, placements, overflow_checks, pc, distance_matrix,
                 possible_point_distance, left_index, right_index, target, best_result,
                 largest_distance, stack, adjacency_matrix, ret, result, run,
                 first_result>>

\* p_solver_probe_result with line 311 written left_index = target
p_solver_probe_result_no_step ==
  /\ solver = "p_solver" /\ pc = "returned" /\ frames = <<>>
  /\ IF IsSome(ret)
     THEN /\ left_index' = target
          /\ best_result' = PointVec_copy(best_result, stack.data[ret.val].selected_points)
          /\ UNCHANGED right_index
     ELSE /\ right_index' = target
          /\ UNCHANGED <<left_index, best_result>>
  /\ pc' = "loop"
  /\ UNCHANGED <<point_vecs, solver, input_data, placements, overflow_checks, distance_matrix,
                 possible_point_distance, target, largest_distance, stack,
                 adjacency_matrix, frames, ret, result, run, first_result>>

\* lines 309-315: the match on the outcome of the probe
p_solver_probe_result ==
  /\ solver = "p_solver" /\ pc = "returned" /\ frames = <<>>
  /\ IF IsSome(ret)
     THEN /\ left_index' = target + 1
          /\ best_result' = PointVec_copy(best_result, stack.data[ret.val].selected_points)
          /\ UNCHANGED right_index
     ELSE /\ right_index' = target
          /\ UNCHANGED <<left_index, best_result>>
  /\ pc' = "loop"
  /\ UNCHANGED <<point_vecs, solver, input_data, placements, overflow_checks, distance_matrix,
                 possible_point_distance, target, largest_distance, stack,
                 adjacency_matrix, frames, ret, result, run, first_result>>

\* lines 318-322: the loop is over
p_solver_finish ==
  /\ solver = "p_solver" /\ pc = "loop"
  /\ ~(left_index < right_index)
  /\ result' = IF best_result.true_count = 0 THEN None
               ELSE Some(PointVec_into(best_result))
  /\ pc' = "done"
  /\ UNCHANGED <<point_vecs, solver, input_data, placements, overflow_checks, distance_matrix,
                 possible_point_distance, left_index, right_index, target, best_result,
                 largest_distance, stack, adjacency_matrix, frames, ret, run,
                 first_result>>

\* ----------------------------------------------------- naive.rs: PointVec
\* the assertion of PointVec::new
naive_PointVec_new_assert(location_count) == location_count < naive_Capacity

naive_PointVec_new(location_count, fill) ==
  IF fill
  THEN [data |-> [s \in 0..naive_Sectors - 1 |->
                    IF s > location_count \div naive_WordBits THEN {}
                    ELSE IF s = location_count \div naive_WordBits
                    THEN 0..(location_count % naive_WordBits) - 1
                    ELSE 0..naive_WordBits - 1],
        true_count |-> location_count]
  ELSE [data |-> [s \in 0..naive_Sectors - 1 |-> {}], true_count |-> 0]

naive_PointVec_reset(self, location_count, fill) ==
  IF fill
  THEN [data |-> [s \in DOMAIN self.data |->
                    IF s > location_count \div naive_WordBits THEN {}
                    ELSE IF s = location_count \div naive_WordBits
                    THEN 0..(location_count % naive_WordBits) - 1
                    ELSE 0..naive_WordBits - 1],
        true_count |-> location_count]
  ELSE [data |-> [s \in DOMAIN self.data |-> {}], true_count |-> 0]

naive_PointVec_len(self) == self.true_count

naive_PointVec_copy(self, copy_src) ==
  [data |-> [s \in DOMAIN self.data |-> copy_src.data[s]],
   true_count |-> copy_src.true_count]

naive_PointVec_next(self) ==
  LET nonzero == {s \in DOMAIN self.data : self.data[s] # {}}
  IN IF nonzero = {} THEN None
     ELSE LET index == SetMin(nonzero)
          IN Some(naive_WordBits * index + SetMin(self.data[index]))

naive_PointVec_subtract_and_copy(self, lhs, rhs) ==
  LET data == [s \in DOMAIN self.data |-> lhs.data[s] \ rhs.data[s]]
      ones == [s \in DOMAIN self.data |-> Cardinality(data[s])]
  IN [data |-> data, true_count |-> SumTo(ones, ArrLen(self.data)) % U8]

naive_PointVec_remove(self, index) ==
  LET sector == index \div naive_WordBits
      bit == index % naive_WordBits
  IN [data |-> [self.data EXCEPT ![sector] = @ \ {bit}],
      true_count |-> self.true_count - (IF bit \in self.data[sector] THEN 1 ELSE 0)]

naive_PointVec_insert_and_copy(self, lhs, index) ==
  LET target_sector == index \div naive_WordBits
      bit == index % naive_WordBits
  IN [data |-> [s \in DOMAIN self.data |->
                  IF s = target_sector THEN lhs.data[s] \cup {bit} ELSE lhs.data[s]],
      true_count |->
        IF target_sector \in DOMAIN self.data
        THEN (lhs.true_count + (IF bit \notin lhs.data[target_sector] THEN 1 ELSE 0)) % U8
        ELSE self.true_count]

naive_PointVec_insert(self, index) ==
  LET sector == index \div naive_WordBits
      bit == index % naive_WordBits
  IN [data |-> [self.data EXCEPT ![sector] = @ \cup {bit}],
      true_count |->
        (self.true_count + (IF bit \notin self.data[sector] THEN 1 ELSE 0)) % U8]

RECURSIVE naive_PointVec_into_upto(_, _)
naive_PointVec_into_upto(val, k) ==
  IF k = 0 THEN <<>>
  ELSE naive_PointVec_into_upto(val, k - 1)
         \o word_indices((k - 1) * naive_WordBits, val.data[k - 1])

\* impl From<PointVec> for Box<[usize]>
naive_PointVec_into(val) ==
  LET s == naive_PointVec_into_upto(val, ArrLen(val.data))
  IN [i \in 0..Len(s) - 1 |-> s[i + 1]]

\* ----------------------- naive.rs: AdjacencyMatrix, SolveData, SolveStack
RECURSIVE naive_adjacency_row(_, _, _, _)
naive_adjacency_row(row, distances, neighbour_distance, k) ==
  IF k = 0 THEN row
  ELSE LET prev == naive_adjacency_row(row, distances, neighbour_distance, k - 1)
       IN IF distances[k - 1] <= neighbour_distance
          THEN naive_PointVec_insert(prev, k - 1)
          ELSE prev

naive_AdjacencyMatrix_new(location_count, matrix, neighbour_distance) ==
  [index \in 0..location_count - 1 |->
     naive_adjacency_row(naive_PointVec_new(location_count, FALSE), matrix[index],
                         neighbour_distance, ArrLen(matrix[index]))]

naive_SolveData_new(location_count) ==
  [selected_points |-> naive_PointVec_new(location_count, FALSE),
   remaining_points |-> naive_PointVec_new(location_count, TRUE)]

naive_SolveData_reset(self, location_count) ==
  [selected_points |-> naive_PointVec_reset(self.selected_points, location_count, FALSE),
   remaining_points |-> naive_PointVec_reset(self.remaining_points, location_count, TRUE)]

naive_SolveStack_new(max_search_depth, location_count) ==
  [data |-> [i \in 0..max_search_depth - 1 |-> naive_SolveData_new(location_count)],
   idx |-> 0]

\* the assertion of SolveStack::alloc
naive_SolveStack_alloc_assert(self) == self.idx < ArrLen(self.data)

naive_SolveStack_alloc(self) == [self EXCEPT !.idx = @ + 1]

naive_SolveStack_dealloc(self) == [self EXCEPT !.idx = @ - 1]

naive_SolveStack_reset(self, location_count) ==
  [data |-> [self.data EXCEPT ![0] = naive_SolveData_reset(@, location_count)],
   idx |-> 0]

\* --------------------------------------------------- naive.rs: naive_solver
\* lines 292-315
naive_solver_entry ==
  /\ solver = "naive_solver" /\ pc = "entry"
  /\ LET input_size == ArrLen(input_data) % U8
         matrix == PointData_distances(input_data)
     IN /\ distance_matrix' = matrix
        /\ IF ArrLen(matrix) = 0
           THEN /\ pc' = "panic"
                /\ result' = Panic("Distance matrix must not be empty")
                /\ UNCHANGED <<possible_point_distance, left_index, right_index,
                               best_result, stack>>
           ELSE IF ~naive_PointVec_new_assert(input_size)
           THEN /\ pc' = "panic"
                /\ result' = Panic("assertion failed: location_count < 64 * 3")
                /\ possible_point_distance' = sort_by_total_cmp(matrix[0])
                /\ left_index' = 0
                /\ right_index' = ArrLen(matrix[0]) - 1
                /\ UNCHANGED <<best_result, stack>>
           ELSE /\ possible_point_distance' = sort_by_total_cmp(matrix[0])
                /\ left_index' = 0
                /\ right_index' = ArrLen(matrix[0]) - 1
                /\ best_result' = naive_PointVec_new(input_size, FALSE)
                /\ stack' = naive_SolveStack_new(input_size, input_size)
                /\ pc' = "loop"
                /\ UNCHANGED result
  /\ UNCHANGED <<point_vecs, solver, input_data, placements, overflow_checks, target,
                 largest_distance, adjacency_matrix, frames, ret, run, first_result>>

\* lines 317-326
naive_solver_probe ==
  /\ solver = "naive_solver" /\ pc = "loop"
  /\ left_index < right_index
  /\ LET input_size == ArrLen(input_data) % U8
         reset == naive_SolveStack_reset(stack, input_size)
         mid == (left_index + right_index) \div 2
     IN /\ target' = mid
        /\ IF naive_SolveStack_alloc_assert(reset)
           THEN /\ stack' = naive_SolveStack_alloc(reset)
                /\ adjacency_matrix' =
                     naive_AdjacencyMatrix_new(input_size, distance_matrix,
                                               possible_point_distance[mid])
                /\ frames' = <<Frame(reset.idx, "enter")>>
                /\ pc' = "search"
                /\ UNCHANGED result
           ELSE /\ pc' = "panic"
                /\ result' = Panic("assertion failed: self.idx < self.data.len()")
                /\ stack' = reset
                /\ UNCHANGED <<adjacency_matrix, frames>>
  /\ UNCHANGED <<point_vecs, solver, input_data, placements, overflow_checks, distance_matrix,
                 possible_point_distance, left_index, right_index, best_result,
                 largest_distance, ret, run, first_result>>

\* search, lines 248-278
naive_search_enter ==
  /\ solver = "naive_solver" /\ pc = "search"
  /\ LET slot == Top(frames).slot
         solve_data == stack.data[slot]
         select_size == placements
     IN IF naive_PointVec_len(solve_data.selected_points) >= select_size
        THEN /\ ret' = Some(slot)
             /\ frames' = Pop(frames)
             /\ pc' = "returned"
             /\ UNCHANGED <<stack, result>>
        ELSE IF naive_PointVec_len(solve_data.remaining_points)
                  < select_size - naive_PointVec_len(solve_data.selected_points)
        THEN /\ ret' = None
             /\ frames' = Pop(frames)
             /\ pc' = "returned"
             /\ UNCHANGED <<stack, result>>
        ELSE LET next == naive_PointVec_next(solve_data.remaining_points)
             IN IF ~IsSome(next)
                THEN /\ pc' = "panic"
                     /\ result' = Panic("At least one point remaining")
                     /\ UNCHANGED <<stack, frames, ret>>
                ELSE LET point == next.val
                         parent == [solve_data EXCEPT !.remaining_points =
                                      naive_PointVec_remove(@, point)]
                         removed == [stack EXCEPT !.data[slot] = parent]
                     IN IF ~naive_SolveStack_alloc_assert(removed)
                        THEN /\ pc' = "panic"
                             /\ result' = Panic("assertion failed: self.idx < self.data.len()")
                             /\ stack' = removed
                             /\ UNCHANGED <<frames, ret>>
                        ELSE LET new_slot == removed.idx
                                 old == removed.data[new_slot]
                                 new_data ==
                                   [selected_points |->
                                      naive_PointVec_insert_and_copy(
                                        old.selected_points, parent.selected_points, point),
                                    remaining_points |->
                                      naive_PointVec_subtract_and_copy(
                                        old.remaining_points, parent.remaining_points,
                                        adjacency_matrix[point])]
                             IN /\ stack' = [naive_SolveStack_alloc(removed)
                                               EXCEPT !.data[new_slot] = new_data]
                                /\ frames' = Append(SetTop(frames, Frame(slot, "include")),
                                                    Frame(new_slot, "enter"))
                                /\ UNCHANGED <<pc, ret, result>>
  /\ UNCHANGED <<point_vecs, solver, input_data, placements, overflow_checks, distance_matrix,
                 possible_point_distance, left_index, right_index, target, best_result,
                 largest_distance, adjacency_matrix, run, first_result>>

\* search, lines 280-288
naive_search_after_include ==
  /\ solver = "naive_solver" /\ pc = "returned"
  /\ frames # <<>> /\ Top(frames).at = "include"
  /\ IF IsSome(ret)
     THEN /\ frames' = Pop(frames)
          /\ UNCHANGED <<stack, pc, ret>>
     ELSE /\ stack' = naive_SolveStack_dealloc(stack)
          /\ frames' = Append(SetTop(frames, Frame(Top(frames).slot, "exclude")),
                              Frame(Top(frames).slot, "enter"))
          /\ pc' = "search"
          /\ UNCHANGED ret
  /\ UNCHANGED <<point_vecs, solver, input_data, placements, overflow_checks, distance_matrix,
                 possible_point_distance, left_index, right_index, target, best_result,
                 largest_distance, adjacency_matrix, result, run, first_result>>

\* search, line 288
naive_search_after_exclude ==
  /\ solver = "naive_solver" /\ pc = "returned"
  /\ frames # <<>> /\ Top(frames).at = "exclude"
  /\ frames' = Pop(frames)
  /\ UNCHANGED <<point_vecs, solver, input_data, placements, overflow_checks, pc, distance_matrix,
                 possible_point_distance, left_index, right_index, target, best_result,
                 largest_distance, stack, adjacency_matrix, ret, result, run,
                 first_result>>

\* lines 326-332
naive_solver_probe_result ==
  /\ solver = "naive_solver" /\ pc = "returned" /\ frames = <<>>
  /\ IF IsSome(ret)
     THEN /\ left_index' = target + 1
          /\ best_result' =
               naive_PointVec_copy(best_result, stack.data[ret.val].selected_points)
          /\ UNCHANGED right_index
     ELSE /\ right_index' = target
          /\ UNCHANGED <<left_index, best_result>>
  /\ pc' = "loop"
  /\ UNCHANGED <<point_vecs, solver, input_data, placements, overflow_checks, distance_matrix,
                 possible_point_distance, target, largest_distance, stack,
                 adjacency_matrix, frames, ret, result, run, first_result>>

\* lines 335-339
naive_solver_finish ==
  /\ solver = "naive_solver" /\ pc = "loop"
  /\ ~(left_index < right_index)
  /\ result' = IF best_result.true_count = 0 THEN None
               ELSE Some(naive_PointVec_into(best_result))
  /\ pc' = "done"
  /\ UNCHANGED <<point_vecs, solver, input_data, placements, overflow_checks, distance_matrix,
                 possible_point_distance, left_index, right_index, target, best_result,
                 largest_distance, stack, adjacency_matrix, frames, ret, run,
                 first_result>>

\* -------------------------------------------------- lib.rs: SolveData, search
Ok(v) == [ok |-> TRUE, val |-> v]
Err(e) == [ok |-> FALSE, err |-> e]
IsOk(r) == "ok" \in DOMAIN r /\ r.ok
IsErr(r) == "ok" \in DOMAIN r /\ ~r.ok

\* a row of adjacency_matrix is only ever iterated to remove its elements from a
\* HashSet, so it is kept as the set of the indices pushed
lib_SolveData_new(location_count, matrix, neighbour_distance, select_size) ==
  [select_size |-> select_size,
   selected_points |-> {},
   remaining_points |-> 0..location_count - 1,
   adjacency_matrix |->
     [index \in 0..location_count - 1 |->
        {point \in DOMAIN matrix[index] : matrix[index][point] <= neighbour_distance}]]

RECURSIVE lib_search(_)
\* every value search can return; remaining_points.iter().next() yields an
\* arbitrary element, the iteration order of a HashSet being unspecified
lib_search(solve_data) ==
  IF Cardinality(solve_data.selected_points) >= solve_data.select_size
  THEN {Some(solve_data)}
  ELSE IF Cardinality(solve_data.remaining_points)
            < solve_data.select_size - Cardinality(solve_data.selected_points)
  THEN {None}
  ELSE IF solve_data.remaining_points = {}
  THEN {Panic("Must have at least 1 remaining")}
  ELSE UNION {
         LET new_data ==
               [solve_data EXCEPT
                  !.selected_points = @ \cup {point},
                  !.remaining_points =
                     (@ \ {point}) \ solve_data.adjacency_matrix[point]]
             included == lib_search(new_data)
         IN {r \in included : ~IsNone(r)}
              \cup (IF None \in included
                    THEN lib_search([solve_data EXCEPT !.remaining_points = @ \ {point}])
                    ELSE {})
         : point \in solve_data.remaining_points}

RECURSIVE flatten_rows(_, _)
\* possible_point_distance as pushed by the two nested loops, rows first
flatten_rows(matrix, k) ==
  IF k = 0 THEN <<>>
  ELSE flatten_rows(matrix, k - 1)
         \o [i \in 1..ArrLen(matrix[k - 1]) |-> matrix[k - 1][i - 1]]

lib_all_distances(matrix) ==
  LET s == flatten_rows(matrix, ArrLen(matrix))
  IN [i \in 0..Len(s) - 1 |-> s[i + 1]]

\* the arrays a hash set of indices can be collected into
Orderings(S) ==
  {a \in [0..Cardinality(S) - 1 -> S] : \A i, j \in DOMAIN a : i # j => a[i] # a[j]}

\* ------------------------------------------- lib.rs: solve_p_dispersion
\* lines 131-152
lib_entry ==
  /\ solver = "solve_p_dispersion" /\ pc = "entry"
  /\ LET matrix == PointData_distances(input_data)
     IN /\ distance_matrix' = matrix
        /\ possible_point_distance' = sort_by_total_cmp(lib_all_distances(matrix))
        /\ left_index' = 0
        /\ right_index' = ArrLen(lib_all_distances(matrix))
        /\ largest_distance' = 0
        /\ best_result' = None
        /\ pc' = "loop"
  /\ UNCHANGED <<point_vecs, solver, input_data, placements, overflow_checks, target, stack,
                 adjacency_matrix, frames, ret, result, run, first_result>>

\* lines 154-174: one turn of the while loop
lib_probe ==
  /\ solver = "solve_p_dispersion" /\ pc = "loop"
  /\ left_index < right_index
  /\ LET mid == (left_index + right_index) \div 2
     IN /\ target' = mid
        /\ IF mid \notin DOMAIN possible_point_distance
           THEN /\ pc' = "panic"
                /\ result' = Panic("index out of bounds")
                /\ UNCHANGED <<left_index, right_index, largest_distance, best_result>>
           ELSE \E found \in lib_search(lib_SolveData_new(ArrLen(input_data), distance_matrix,
                                                          possible_point_distance[mid],
                                                          placements)) :
                  IF IsPanic(found)
                  THEN /\ pc' = "panic"
                       /\ result' = found
                       /\ UNCHANGED <<left_index, right_index, largest_distance,
                                      best_result>>
                  ELSE IF IsSome(found)
                  THEN IF mid = 0 /\ overflow_checks
                       THEN /\ pc' = "panic"
                            /\ result' = Panic("attempt to subtract with overflow")
                            /\ UNCHANGED <<left_index, right_index, largest_distance,
                                           best_result>>
                       ELSE /\ right_index' = IF mid = 0 THEN usize_MAX ELSE mid - 1
                            /\ IF possible_point_distance[mid] > largest_distance
                               THEN /\ largest_distance' = possible_point_distance[mid]
                                    /\ best_result' = found
                               ELSE UNCHANGED <<largest_distance, best_result>>
                            /\ UNCHANGED <<left_index, pc, result>>
                  ELSE /\ left_index' = mid + 1
                       /\ UNCHANGED <<right_index, largest_distance, best_result, pc,
                                      result>>
  /\ UNCHANGED <<point_vecs, solver, input_data, placements, overflow_checks, distance_matrix,
                 possible_point_distance, stack, adjacency_matrix, frames, ret, run,
                 first_result>>

\* lines 178-187: the extra probe at left_index
lib_probe_left ==
  /\ solver = "solve_p_dispersion" /\ pc = "loop"
  /\ ~(left_index < right_index)
  /\ IF left_index \notin DOMAIN possible_point_distance
     THEN /\ pc' = "panic"
          /\ result' = Panic("index out of bounds")
          /\ UNCHANGED <<largest_distance, best_result>>
     ELSE \E found \in lib_search(lib_SolveData_new(ArrLen(input_data), distance_matrix,
                                                    possible_point_distance[left_index],
                                                    placements)) :
            IF IsPanic(found)
            THEN /\ pc' = "panic"
                 /\ result' = found
                 /\ UNCHANGED <<largest_distance, best_result>>
            ELSE /\ IF IsSome(found) /\ possible_point_distance[left_index] > largest_distance
                    THEN /\ largest_distance' = possible_point_distance[left_index]
                         /\ best_result' = found
                    ELSE UNCHANGED <<largest_distance, best_result>>
                 /\ pc' = "probe_right"
                 /\ UNCHANGED result
  /\ UNCHANGED <<point_vecs, solver, input_data, placements, overflow_checks, distance_matrix,
                 possible_point_distance, left_index, right_index, target, stack,
                 adjacency_matrix, frames, ret, run, first_result>>

\* lines 189-197: the extra probe at right_index
lib_probe_right ==
  /\ solver = "solve_p_dispersion" /\ pc = "probe_right"
  /\ IF right_index \notin DOMAIN possible_point_distance
     THEN /\ pc' = "panic"
          /\ result' = Panic("index out of bounds")
          /\ UNCHANGED best_result
     ELSE \E found \in lib_search(lib_SolveData_new(ArrLen(input_data), distance_matrix,
                                                    possible_point_distance[right_index],
                                                    placements)) :
            IF IsPanic(found)
            THEN /\ pc' = "panic"
                 /\ result' = found
                 /\ UNCHANGED best_result
            ELSE /\ IF IsSome(found) /\ possible_point_distance[right_index] > largest_distance
                    THEN best_result' = found
                    ELSE UNCHANGED best_result
                 /\ pc' = "finish"
                 /\ UNCHANGED result
  /\ UNCHANGED <<point_vecs, solver, input_data, placements, overflow_checks, distance_matrix,
                 possible_point_distance, left_index, right_index, target,
                 largest_distance, stack, adjacency_matrix, frames, ret, run,
                 first_result>>

\* lines 199-209: the selected points, collected in the set's iteration order
lib_finish ==
  /\ solver = "solve_p_dispersion" /\ pc = "finish"
  /\ IF IsSome(best_result)
     THEN \E indices \in Orderings(best_result.val.selected_points) :
            result' = Ok(indices)
     ELSE result' = Err("NoPossibleDispersion")
  /\ pc' = "done"
  /\ UNCHANGED <<point_vecs, solver, input_data, placements, overflow_checks, distance_matrix,
                 possible_point_distance, left_index, right_index, target, best_result,
                 largest_distance, stack, adjacency_matrix, frames, ret, run,
                 first_result>>

\* the caller calls solve_p_dispersion once more with the same arguments
lib_rerun ==
  /\ solver = "solve_p_dispersion" /\ pc = "done" /\ run = 1
  /\ run' = 2
  /\ first_result' = result
  /\ result' = Pending
  /\ pc' = "entry"
  /\ UNCHANGED <<point_vecs, solver, input_data, placements, overflow_checks, distance_matrix,
                 possible_point_distance, left_index, right_index, target, best_result,
                 largest_distance, stack, adjacency_matrix, frames, ret>>

\* ------------------------------------------------------------ specification
Inputs == UNION {[0..n - 1 -> Points] : n \in 0..MaxN}

Init ==
  /\ solver \in {"p_solver", "naive_solver", "solve_p_dispersion"}
  /\ input_data \in Inputs
  /\ placements \in 0..MaxN + 1
  /\ overflow_checks \in (IF solver = "solve_p_dispersion" THEN BOOLEAN ELSE {TRUE})
  /\ pc = "entry"
  /\ distance_matrix = EmptyArr
  /\ possible_point_distance = EmptyArr
  /\ left_index = 0 /\ right_index = 0 /\ target = 0
  /\ best_result = None
  /\ largest_distance = 0
  /\ stack = [data |-> EmptyArr, idx |-> 0]
  /\ adjacency_matrix = EmptyArr
  /\ frames = <<>>
  /\ ret = None
  /\ result = Pending
  /\ run = 1
  /\ first_result = Pending
  /\ point_vecs = <<>>

Next ==
  \/ p_solver_entry
  \/ p_solver_probe
  \/ search_enter
  \/ search_after_include
  \/ search_after_exclude
  \/ p_solver_probe_result
  \/ p_solver_finish
  \/ naive_solver_entry
  \/ naive_solver_probe
  \/ naive_search_enter
  \/ naive_search_after_include
  \/ naive_search_after_exclude
  \/ naive_solver_probe_result
  \/ naive_solver_finish
  \/ lib_entry
  \/ lib_probe
  \/ lib_probe_left
  \/ lib_probe_right
  \/ lib_finish
  \/ lib_rerun

Spec == Init /\ [][Next]_vars

\* p_solver alone, from before its caller chose the arguments; a call that can
\* take a step does take one
InitCore ==
  /\ solver = "p_solver"
  /\ input_data = EmptyArr
  /\ placements = 0
  /\ overflow_checks = TRUE
  /\ pc = "idle"
  /\ distance_matrix = EmptyArr
  /\ possible_point_distance = EmptyArr
  /\ left_index = 0 /\ right_index = 0 /\ target = 0
  /\ best_result = None
  /\ largest_distance = 0
  /\ stack = [data |-> EmptyArr, idx |-> 0]
  /\ adjacency_matrix = EmptyArr
  /\ frames = <<>>
  /\ ret = None
  /\ result = Pending
  /\ run = 1
  /\ first_result = Pending
  /\ point_vecs = <<>>

\* the caller calls p_solver(input_data, placements)
p_solver_call ==
  /\ solver = "p_solver" /\ pc = "idle"
  /\ input_data' \in Inputs
  /\ placements' \in 0..MaxN + 1
  /\ pc' = "entry"
  /\ UNCHANGED <<point_vecs, solver, overflow_checks, distance_matrix, possible_point_distance,
                 left_index, right_index, target, best_result, largest_distance,
                 stack, adjacency_matrix, frames, ret, result, run, first_result>>

NextCore ==
  \/ p_solver_call
  \/ p_solver_entry
  \/ p_solver_probe
  \/ search_enter
  \/ search_after_include
  \/ search_after_exclude
  \/ p_solver_probe_result
  \/ p_solver_finish

SpecTermination == InitCore /\ [][NextCore]_vars /\ WF_vars(NextCore)

\* ------------------------------------------- PointVec operated on directly
\* capacities at and around the word boundaries of the running implementation
PointVecCapacities ==
  IF solver = "p_solver"
  THEN {0, 1, 2} \cup {k * WordBits + d : k \in 1..2, d \in {-1, 0, 1}}
  ELSE {n \in {0, 1, 2} \cup {naive_Capacity - 1, naive_Capacity}
                \cup {k * naive_WordBits + d : k \in 1..naive_Sectors - 1, d \in {-1, 0, 1}} :
          naive_PointVec_new_assert(n)}

\* the indices below the capacity that the operations are given: the first
\* and the last one, and the two on either side of the first word boundary
PointVecIndices ==
  LET bits == IF solver = "p_solver" THEN WordBits ELSE naive_WordBits
  IN {0, bits - 1, bits, point_vecs.location_count - 1}
       \cap (0..point_vecs.location_count - 1)

PointVecNames == {"a", "b"}

InitPointVec ==
  /\ solver \in {"p_solver", "naive_solver"}
  /\ point_vecs \in
       {[location_count |-> n,
         a |-> IF solver = "p_solver" THEN PointVec_new(n, fill_a)
               ELSE naive_PointVec_new(n, fill_a),
         b |-> IF solver = "p_solver" THEN PointVec_new(n, fill_b)
               ELSE naive_PointVec_new(n, fill_b)] :
          n \in PointVecCapacities, fill_a \in BOOLEAN, fill_b \in BOOLEAN}
  /\ input_data = EmptyArr
  /\ placements = 0
  /\ overflow_checks = TRUE
  /\ pc = "point_vec"
  /\ distance_matrix = EmptyArr
  /\ possible_point_distance = EmptyArr
  /\ left_index = 0 /\ right_index = 0 /\ target = 0
  /\ best_result = None
  /\ largest_distance = 0
  /\ stack = [data |-> EmptyArr, idx |-> 0]
  /\ adjacency_matrix = EmptyArr
  /\ frames = <<>>
  /\ ret = None
  /\ result = Pending
  /\ run = 1
  /\ first_result = Pending

\* one of the two sets becomes value, nothing else changes
PointVec_assign(self, value) ==
  /\ point_vecs' = [point_vecs EXCEPT ![self] = value]
  /\ UNCHANGED <<solver, input_data, placements, overflow_checks, pc, distance_matrix,
                 possible_point_distance, left_index, right_index, target, best_result,
                 largest_distance, stack, adjacency_matrix, frames, ret, result, run,
                 first_result>>

PointVec_insert_call ==
  /\ solver = "p_solver" /\ pc = "point_vec"
  /\ \E self \in PointVecNames, index \in PointVecIndices :
        PointVec_assign(self, PointVec_insert(point_vecs[self], index))

PointVec_remove_call ==
  /\ solver = "p_solver" /\ pc = "point_vec"
  /\ \E self \in PointVecNames, index \in PointVecIndices :
        PointVec_assign(self, PointVec_remove(point_vecs[self], index))

PointVec_subtract_call ==
  /\ solver = "p_solver" /\ pc = "point_vec"
  /\ \E self \in PointVecNames, rhs \in PointVecNames :
        PointVec_assign(self, PointVec_subtract(point_vecs[self], point_vecs[rhs]))

PointVec_copy_call ==
  /\ solver = "p_solver" /\ pc = "point_vec"
  /\ \E self \in PointVecNames, copy_src \in PointVecNames :
        PointVec_assign(self, PointVec_copy(point_vecs[self], point_vecs[copy_src]))

PointVec_reset_call ==
  /\ solver = "p_solver" /\ pc = "point_vec"
  /\ \E self \in PointVecNames, fill \in BOOLEAN :
        PointVec_assign(self, PointVec_reset(point_vecs[self],
                                             point_vecs.location_count, fill))

naive_PointVec_insert_call ==
  /\ solver = "naive_solver" /\ pc = "point_vec"
  /\ \E self \in PointVecNames, index \in PointVecIndices :
        PointVec_assign(self, naive_PointVec_insert(point_vecs[self], index))

naive_PointVec_remove_call ==
  /\ solver = "naive_solver" /\ pc = "point_vec"
  /\ \E self \in PointVecNames, index \in PointVecIndices :
        PointVec_assign(self, naive_PointVec_remove(point_vecs[self], index))

naive_PointVec_subtract_and_copy_call ==
  /\ solver = "naive_solver" /\ pc = "point_vec"
  /\ \E self \in PointVecNames, lhs \in PointVecNames, rhs \in PointVecNames :
        PointVec_assign(self, naive_PointVec_subtract_and_copy(
                                point_vecs[self], point_vecs[lhs], point_vecs[rhs]))

naive_PointVec_insert_and_copy_call ==
  /\ solver = "naive_solver" /\ pc = "point_vec"
  /\ \E self \in PointVecNames, lhs \in PointVecNames, index \in PointVecIndices :
        PointVec_assign(self, naive_PointVec_insert_and_copy(
                                point_vecs[self], point_vecs[lhs], index))

naive_PointVec_copy_call ==
  /\ solver = "naive_solver" /\ pc = "point_vec"
  /\ \E self \in PointVecNames, copy_src \in PointVecNames :
        PointVec_assign(self, naive_PointVec_copy(point_vecs[self], point_vecs[copy_src]))

naive_PointVec_reset_call ==
  /\ solver = "naive_solver" /\ pc = "point_vec"
  /\ \E self \in PointVecNames, fill \in BOOLEAN :
        PointVec_assign(self, naive_PointVec_reset(point_vecs[self],
                                                   point_vecs.location_count, fill))

NextPointVec ==
  \/ PointVec_insert_call
  \/ PointVec_remove_call
  \/ PointVec_subtract_call
  \/ PointVec_copy_call
  \/ PointVec_reset_call
  \/ naive_PointVec_insert_call
  \/ naive_PointVec_remove_call
  \/ naive_PointVec_subtract_and_copy_call
  \/ naive_PointVec_insert_and_copy_call
  \/ naive_PointVec_copy_call
  \/ naive_PointVec_reset_call

SpecPointVec == InitPointVec /\ [][NextPointVec]_vars

\* ------------------------------------------------- vocabulary of the claims
N == ArrLen(input_data)
Dist(i, j) == get_distance(input_data[i], input_data[j])
SetMax(S) == CHOOSE m \in S : \A k \in S : k <= m

\* all points of S are pairwise farther apart than t
Separated(S, t) == \A i, j \in S : i # j => Dist(i, j) > t
SubsetsOfSize(p) == {S \in SUBSET (0..N - 1) : Cardinality(S) = p}
Feasible(t, p) == \E S \in SubsetsOfSize(p) : Separated(S, t)

\* the smallest distance between two different points of S (S of two or more)
MinPairwise(S) == SetMin({Dist(e[1], e[2]) : e \in {e \in S \X S : e[1] # e[2]}})

\* the best minimum pairwise distance any p of the input points achieve
BruteForce(p) == SetMax({MinPairwise(S) : S \in SubsetsOfSize(p)})

\* the indices an entry point returned
Returned == {result.val[i] : i \in DOMAIN result.val}

\* the candidate thresholds of p_solver and naive_solver: distances from point 0
Candidates0 == {Dist(0, j) : j \in 0..N - 1}
FeasibleCandidates0 == {t \in Candidates0 : Feasible(t, placements)}

Bitset == solver \in {"p_solver", "naive_solver"}

\* C1: whenever p_solver returns a selection, it is placements distinct indices
\* below n, and any two of the selected points are farther apart than the
\* threshold of the last feasible probe.  A feasible probe at index target sets
\* left_index to target + 1 and nothing else moves left_index, so that threshold
\* is possible_point_distance[left_index - 1].
C1_Validity ==
  (solver = "p_solver" /\ pc = "done" /\ IsSome(result)) =>
     /\ ArrLen(result.val) = placements
     /\ Cardinality(Returned) = placements
     /\ Returned \subseteq 0..N - 1
     /\ left_index >= 1
     /\ Separated(Returned, possible_point_distance[left_index - 1])

C1_Witness ==
  /\ solver = "p_solver" /\ pc = "done" /\ IsSome(result)
  /\ placements >= 2
  /\ possible_point_distance[left_index - 1] > 0

\* C2: for 2 <= placements <= n, the minimum pairwise distance of the selection
\* p_solver returns equals the best minimum pairwise distance over all subsets
\* of placements points.
C2_Optimality ==
  (solver = "p_solver" /\ pc = "done" /\ IsSome(result)
     /\ 2 <= placements /\ placements <= N) =>
     MinPairwise(Returned) = BruteForce(placements)

\* C3: the selection p_solver returns has all its pairwise distances above the
\* largest feasible candidate threshold, the last candidate and the index where
\* the bounds meet included.
C3_LargestFeasibleCandidate ==
  (solver = "p_solver" /\ pc = "done" /\ IsSome(result)
     /\ FeasibleCandidates0 # {}) =>
     Separated(Returned, SetMax(FeasibleCandidates0))

C5_FeasibleGivesSelection ==
  (solver = "p_solver" /\ pc = "done" /\ N >= 1 /\ placements >= 1
     /\ FeasibleCandidates0 # {}) =>
     IsSome(result) /\ ArrLen(result.val) = placements

\* C6: called with zero points, an entry point returns a no-solution or
\* invalid-input value without panicking.
C6_EmptyInputRejected ==
  N = 0 => /\ pc # "panic"
           /\ pc = "done" => (IsNone(result) \/ IsErr(result))

\* C7: on a non-empty input solve_p_dispersion never panics: every index into
\* possible_point_distance is in range and target - 1 is never taken at target 0.
C7_AlwaysAResult ==
  (solver = "solve_p_dispersion" /\ N >= 1) => pc # "panic"

\* C8: for 2 <= placements <= n, the selection solve_p_dispersion returns has a
\* minimum pairwise distance equal to the brute-force optimum.
C8_LibOptimal ==
  (solver = "solve_p_dispersion" /\ pc = "done" /\ IsOk(result)
     /\ 2 <= placements /\ placements <= N) =>
     MinPairwise(Returned) = BruteForce(placements)

\* C9: a second call of solve_p_dispersion on the same arguments fails if the
\* first one failed, and else returns a selection with the same minimum pairwise
\* distance as the first.
C9_RerunSameOptimum ==
  (solver = "solve_p_dispersion" /\ run = 2 /\ pc = "done"
     /\ 2 <= placements) =>
     \/ IsErr(first_result) /\ IsErr(result)
     \/ /\ IsOk(first_result) /\ IsOk(result)
        /\ MinPairwise(Returned)
             = MinPairwise({first_result.val[i] : i \in DOMAIN first_result.val})

\* C10: with 1 <= placements <= n, the assertion of SolveStack::alloc never
\* fails in p_solver or naive_solver.
C10_ArenaNeverExhausted ==
  (Bitset /\ N >= 1 /\ 1 <= placements /\ placements <= N) =>
     ~(pc = "panic" /\ result = Panic("assertion failed: self.idx < self.data.len()"))


\* C11: one probe of p_solver, started from the root state with the adjacency
\* of threshold possible_point_distance[target] and placements >= 1, ends by
\* returning a state exactly when placements of the points are pairwise
\* farther apart than that threshold; it never ends otherwise.
C11_SearchExact ==
  (solver = "p_solver" /\ N >= 1 /\ placements >= 1) =>
     /\ (pc = "returned" /\ frames = <<>>) =>
          (IsSome(ret) <=> Feasible(possible_point_distance[target], placements))
     /\ pc # "panic"

\* a step of search that calls search: the include call made by search_enter
\* or the exclude call made after the include call returned None
SearchCalls == pc \in {"search", "returned"} /\ pc' = "search"
                 /\ Len(frames') = Len(frames) + 1
Callee == stack'.data[Top(frames').slot]

\* C12: p_solver on a non-empty input ends (it returns, or it stops in the
\* panic of C10): the include call gets a state with fewer remaining points
\* than its caller was given, and leaves its caller a state with fewer
\* remaining points for the exclude call, which gets that state as it is; every
\* turn of the while loop brings left_index and right_index closer, left_index
\* never above right_index, and the call returns with the two equal.
C12_Termination ==
  /\ [][(SearchCalls /\ pc = "search") =>
          LET given == stack.data[Top(frames).slot]
              left == stack'.data[Top(frames).slot]
          IN /\ PointVec_len(Callee.remaining_points)
                  < PointVec_len(given.remaining_points)
             /\ PointVec_len(left.remaining_points)
                  < PointVec_len(given.remaining_points)]_vars
  /\ [][(SearchCalls /\ pc = "returned") =>
          Callee = stack.data[Top(frames).slot]]_vars
  /\ [][(pc = "returned" /\ pc' = "loop") =>
          /\ right_index' - left_index' < right_index - left_index
          /\ left_index' <= right_index']_vars
  /\ []((pc = "done" /\ N >= 1) => left_index = right_index)
  /\ []((pc = "entry" /\ N >= 1) => <>(pc \in {"done", "panic"}))

C12_Witness ==
  /\ solver = "p_solver" /\ pc = "done" /\ N >= 3
  /\ left_index = right_index
  /\ 0 < left_index /\ right_index < N - 1

\* the indices whose bit is set in a point set of the running solver
Members(point_vec) ==
  LET bits == IF solver = "p_solver" THEN WordBits ELSE naive_WordBits
  IN UNION {{bits * s + b : b \in point_vec.data[s]} : s \in DOMAIN point_vec.data}

\* selected.count + remaining.count of a search state
CountSum(solve_data) ==
  solve_data.selected_points.true_count + solve_data.remaining_points.true_count

\* a probe of p_solver or naive_solver is under way
InProbe == Bitset /\ pc \in {"search", "returned"}

\* C13: during a probe of p_solver or naive_solver, in every state search was
\* given or has created (the arena slots in use) no index is both selected and
\* remaining; no step of the probe raises selected.count + remaining.count of
\* a state in use, and the state created for an include call has a sum no
\* larger than the state its caller was given.
C13_SearchStateInvariant ==
  /\ [](InProbe =>
          \A i \in 0..stack.idx - 1 :
             Members(stack.data[i].selected_points)
               \cap Members(stack.data[i].remaining_points) = {})
  /\ [][(InProbe /\ InProbe') =>
          \A i \in 0..stack.idx - 1 :
             i < stack'.idx => CountSum(stack'.data[i]) <= CountSum(stack.data[i])]_vars
  /\ [][(Bitset /\ SearchCalls) =>
          CountSum(Callee) <= CountSum(stack.data[Top(frames).slot])]_vars

C13_Witness ==
  /\ solver = "naive_solver" /\ pc = "search" /\ Len(frames) >= 2
  /\ LET callee == stack.data[frames[Len(frames)].slot]
         caller == stack.data[frames[Len(frames) - 1].slot]
     IN /\ frames[Len(frames) - 1].at = "include"
        /\ CountSum(callee) < N
        /\ CountSum(caller) < N
        /\ Members(callee.selected_points) # {}
        /\ Members(callee.remaining_points) # {}


RECURSIVE RefSearch(_, _, _, _)
\* the search on sets of indices alone: from selected sel and remaining rem, the
\* selection reached by trying the lowest remaining index first, include before
\* exclude, with threshold t and p points asked for; None when there is none
RefSearch(sel, rem, t, p) ==
  IF Cardinality(sel) >= p THEN Some(sel)
  ELSE IF Cardinality(rem) < p - Cardinality(sel) THEN None
  ELSE LET point == SetMin(rem)
           include == RefSearch(sel \cup {point},
                                {j \in rem : Dist(point, j) > t}, t, p)
       IN IF IsSome(include) THEN include
          ELSE RefSearch(sel, rem \ {point}, t, p)

\* the step that starts a probe: the while loop calls search on the root
ProbeStarts == Bitset /\ pc = "loop" /\ pc' = "search"

\* C14: every probe of p_solver (and of naive_solver) starts on arena slot 0
\* holding nothing selected and all of 0..n-1 remaining; the state an include
\* call is given is the caller's selected plus the picked point and the
\* caller's remaining minus the point and its neighbours, whatever the slot
\* held before; and a probe that returns returns what the search on sets gives
\* for its threshold and placements: none, or that same selection.
C14_ProbeIsolation ==
  /\ [][ProbeStarts =>
          /\ frames' = <<Frame(0, "enter")>>
          /\ Members(stack'.data[0].selected_points) = {}
          /\ Members(stack'.data[0].remaining_points) = 0..N - 1
          /\ CountSum(stack'.data[0]) = N]_vars
  /\ [][(Bitset /\ SearchCalls /\ pc = "search") =>
          LET given == stack.data[Top(frames).slot]
              point == SetMin(Members(given.remaining_points))
              selected == Members(given.selected_points) \cup {point}
              remaining == Members(given.remaining_points)
                             \ ({point} \cup Members(adjacency_matrix[point]))
          IN /\ Members(Callee.selected_points) = selected
             /\ Members(Callee.remaining_points) = remaining
             /\ Callee.selected_points.true_count = Cardinality(selected)
             /\ Callee.remaining_points.true_count = Cardinality(remaining)]_vars
  /\ []((InProbe /\ pc = "returned" /\ frames = <<>>) =>
          LET outcome == RefSearch({}, 0..N - 1, possible_point_distance[target],
                                   placements)
          IN IF IsSome(ret)
             THEN /\ IsSome(outcome)
                  /\ Members(stack.data[ret.val].selected_points) = outcome.val
             ELSE outcome = None)

C14_Witness ==
  /\ solver = "p_solver" /\ pc = "returned" /\ frames = <<>>
  /\ right_index < N - 1
  /\ ret = None
  /\ \E i \in stack.idx..N - 1 : Members(stack.data[i].selected_points) # {}


\* the number of one-bits in the words of a point set
SetBits(point_vec) ==
  SumTo([s \in DOMAIN point_vec.data |-> Cardinality(point_vec.data[s])],
        ArrLen(point_vec.data))

\* C15: after new(n, fill) and any sequence of insert, remove, subtract, copy
\* and reset (and naive.rs's insert_and_copy and subtract_and_copy) on point
\* sets of capacity n with indices below n, true_count is the number of set
\* bits, every set bit is at an index below n, and next() is None when no bit
\* is set and the lowest set index otherwise.
C15_PointVecInvariant ==
  pc = "point_vec" =>
    \A name \in PointVecNames :
       LET point_vec == point_vecs[name]
           next == IF solver = "p_solver" THEN PointVec_next(point_vec)
                   ELSE naive_PointVec_next(point_vec)
       IN /\ point_vec.true_count = SetBits(point_vec)
          /\ point_vec.true_count = Cardinality(Members(point_vec))
          /\ Members(point_vec) \subseteq 0..point_vecs.location_count - 1
          /\ next = IF Members(point_vec) = {} THEN None
                    ELSE Some(SetMin(Members(point_vec)))

C15_Witness ==
  /\ pc = "point_vec" /\ solver = "p_solver"
  /\ point_vecs.location_count = WordBits + 1
  /\ Members(point_vecs.a) = {WordBits}
  /\ PointVec_next(point_vecs.a) = Some(WordBits)
  /\ Members(point_vecs.b) = 1..WordBits - 1

=============================================================================
